---- MODULE Spec2Model ----
(***************************************************************************)
(* A model of src/color_models.py: the reference-pixel sampler             *)
(* (ReferencePixels) and the two colour distance models built on it        *)
(* (MahalanobisDistance, GaussianMixtureModelDistance).                    *)
(*                                                                         *)
(* An image is band-major, as rasterio reads it: image[b] is band b-1, a   *)
(* sequence of the pixels in raster order (the two spatial axes are        *)
(* flattened row-major, the order boolean indexing and reshape(.., -1)     *)
(* both produce).  Arithmetic is exact: a float is a reduced fraction.     *)
(***************************************************************************)
EXTENDS Integers, Sequences, FiniteSets, TLC

VARIABLES
    kwargs,         \* the keyword arguments of the last constructor call
    rp,             \* the ReferencePixels object (self.reference_pixels)
    pixel_mask,     \* the local pixel_mask of the last generate_pixel_mask
    kind,           \* the class of the model instance, "none" when there is none
    bands_to_use,   \* BaseDistance.bands_to_use
    n_components,   \* GaussianMixtureModelDistance.n_components
    covariance,     \* self.covariance
    average,        \* self.average
    gmm,            \* self.gmm
    raised,         \* the exception the last call raised, "none" when it returned
    returned,       \* the value the last calculate_distance returned
    image,          \* the argument of the last calculate_distance (its place in
                    \* TargetImages, 0 before the first call)
    log,            \* the steps executed so far, in order
    op,             \* the last call made
    memo,           \* per target image, what the first score since the last fit returned
    seen            \* the last call scored an image already scored since the last fit

vars == <<kwargs, rp, pixel_mask, kind, bands_to_use, n_components, covariance,
          average, gmm, raised, returned, image, log, op, memo, seen>>

-----------------------------------------------------------------------------
(* Bounds and program constants *)

\* Pixels per image (height * width).
NPix == 106

\* Calls of initialize made on one instance.
MaxFits == 2

min_annotated_pixels == 100

gray_threshold == 127

foreground == 255

default_lower_range == <<245, 0, 0>>

default_higher_range == <<256, 10, 10>>

\* Python values are records, so that any two of them compare: None, an
\* attribute that was never assigned, a call that returned nothing, a
\* tuple of band indices, an int.
None == [none |-> TRUE]

Unset == [unset |-> TRUE]

NoReturn == [nothing |-> TRUE]

Tuple(t) == [tuple |-> t]

PyInt(n) == [int |-> n]

\* No array: np.zeros(0), or a local that was never bound.
NoArray == <<>>

\* An array computed element by element when it is built (a function
\* constructor alone is evaluated only where it is applied).
Array(f) == f \o <<>>

-----------------------------------------------------------------------------
(* The inputs: decoded rasters, band selections, target images *)

\* Band b of a reference image repeats a 4-pixel pattern on top of the
\* band's base value b-1.
Patterns ==
    [flat |-> <<0, 0, 0, 0>>, p1 |-> <<0, 2, 0, 2>>,
     p2 |-> <<0, 0, 2, 2>>, p3 |-> <<0, 2, 2, 0>>]

ReferenceLayouts ==
    { <<"p1", "p2">>, <<"p1", "p1", "flat">>, <<"p1", "p2", "p3", "flat">> }

ReferenceImage(layout) ==
    [b \in 1..Len(layout) |->
        [i \in 1..NPix |-> (b - 1) + Patterns[layout[b]][((i - 1) % 4) + 1]]]

\* An annotation image paints `count` consecutive pixels, from pixel
\* start + 1 on, in the colour `marked` over a background `unmarked`.
MaskColours ==
    { <<<<127>>, <<0>>>>, <<<<128>>, <<127>>>>, <<<<255>>, <<0>>>>,
      <<<<255, 0>>, <<0, 0>>>>,
      <<<<255, 0, 0>>, <<0, 0, 0>>>>, <<<<245, 0, 0>>, <<0, 0, 0>>>>,
      <<<<250, 5, 5>>, <<0, 0, 0>>>>, <<<<246, 1, 1>>, <<255, 9, 10>>>>,
      <<<<245, 5, 5>>, <<250, 5, 0>>>>,
      <<<<250, 5, 5, 255>>, <<0, 0, 0, 0>>>> }

MarkedCounts == {100, 101, 104}

MarkedStarts == {1}

MaskImage(colours, start, count) ==
    [b \in 1..Len(colours[1]) |->
        [i \in 1..NPix |->
            IF i > start /\ i <= start + count
            THEN colours[1][b] ELSE colours[2][b]]]

BandSelections ==
    {None, Tuple(<<0>>), Tuple(<<0, 1>>), Tuple(<<1, 0>>), Tuple(<<0, 1, 2>>),
     Tuple(<<0, 3>>)}

ComponentCounts == {0, 2}

\* Target images of two pixels; the first pixel of the first one is the
\* mean of a balanced sample of the reference images above.
TargetImages ==
    << <<<<1, 2>>, <<2, 2>>, <<3, 3>>, <<4, 4>>>>,
       <<<<1, 0>>>> >>

\* The random initialisation of sklearn's EM (random_state = None).
Seeds == {0, 1}

-----------------------------------------------------------------------------
(* ReferencePixels *)

Shape0(a) == Len(a)

\* Variant: the 1-band threshold taken inclusive (>= 127).
PixelMaskOfInclusiveThreshold(mask, lower_range, higher_range) ==
    IF Shape0(mask) = 3 \/ Shape0(mask) = 4
    THEN [i \in 1..Len(mask[1]) |->
            IF /\ mask[1][i] > lower_range[1]
               /\ mask[1][i] < higher_range[1]
               /\ mask[2][i] > lower_range[2]
               /\ mask[2][i] < higher_range[2]
               /\ mask[3][i] > lower_range[3]
               /\ mask[3][i] < higher_range[3]
            THEN foreground ELSE 0]
    ELSE IF Shape0(mask) = 1
    THEN [i \in 1..Len(mask[1]) |->
            IF mask[1][i] >= gray_threshold THEN foreground ELSE 0]
    ELSE NoArray

\* Lines 43-57 of generate_pixel_mask: the np.where of the 3/4-band and
\* of the 1-band branch; NoArray stands for the raise of the else branch.
PixelMaskOf(mask, lower_range, higher_range) ==
    IF Shape0(mask) = 3 \/ Shape0(mask) = 4
    THEN [i \in 1..Len(mask[1]) |->
            IF /\ mask[1][i] > lower_range[1]
               /\ mask[1][i] < higher_range[1]
               /\ mask[2][i] > lower_range[2]
               /\ mask[2][i] < higher_range[2]
               /\ mask[3][i] > lower_range[3]
               /\ mask[3][i] < higher_range[3]
            THEN foreground ELSE 0]
    ELSE IF Shape0(mask) = 1
    THEN [i \in 1..Len(mask[1]) |->
            IF mask[1][i] > gray_threshold THEN foreground ELSE 0]
    ELSE NoArray

\* reference_image[:, pixel_mask == 255]: every band, restricted to the
\* foreground pixels in raster order.
BooleanIndex(reference_image, pm) ==
    LET where == SelectSeq([i \in 1..Len(pm) |-> i], LAMBDA i : pm[i] = foreground)
    IN  [b \in 1..Len(reference_image) |->
            [k \in 1..Len(where) |-> reference_image[b][where[k]]]]

\* values[bands, :] for a tuple of 0-based band indices.
BandIndexInRange(values, bands) ==
    \A j \in 1..Len(bands.tuple) : bands.tuple[j] >= 0 /\ bands.tuple[j] < Len(values)

TakeBands(values, bands) ==
    [j \in 1..Len(bands.tuple) |-> values[bands.tuple[j] + 1]]

\* generate_pixel_mask: the object after the call and what it raised.
generate_pixel_mask(self, lower_range, higher_range) ==
    LET pm == PixelMaskOf(self.mask, lower_range, higher_range)
        all == BooleanIndex(self.reference_image, pm)
    IN  IF pm = NoArray
        THEN [self |-> self, pixel_mask |-> NoArray, raised |-> "Exception",
              log |-> <<"mask">>]
        ELSE IF ~BandIndexInRange(all, self.bands_to_use)
        THEN [self |-> [self EXCEPT !.values = all], pixel_mask |-> pm,
              raised |-> "IndexError", log |-> <<"mask">>]
        ELSE [self |-> [self EXCEPT !.values = TakeBands(all, self.bands_to_use)],
              pixel_mask |-> pm, raised |-> "none", log |-> <<"mask", "sample">>]

Shape1(values) == Len(values[1])

\* Variant: the sample-size check taken strict (< instead of <=).
show_statistics_of_pixel_mask_strict(self) ==
    IF Shape1(self.values) < min_annotated_pixels THEN "Exception" ELSE "none"

\* show_statistics_of_pixel_mask: what it raises.
show_statistics_of_pixel_mask(self) ==
    IF Shape1(self.values) <= min_annotated_pixels THEN "Exception" ELSE "none"

\* Variant: the default selection taken over every band, the last included.
DefaultBandsAll(reference_image) ==
    Tuple([j \in 1..Shape0(reference_image) |-> j - 1])

\* The default of line 28: tuple(range(shape[0] - 1)).
DefaultBands(reference_image) ==
    Tuple([j \in 1..(Shape0(reference_image) - 1) |-> j - 1])

\* Variant: an initialize that does not call show_statistics_of_pixel_mask.
ReferencePixelsInitUnchecked(reference, annotated, bands) ==
    LET self0 == [reference_image |-> reference, mask |-> annotated,
                  bands_to_use |-> bands, values |-> NoArray]
        self1 == IF self0.bands_to_use = None
                 THEN [self0 EXCEPT !.bands_to_use = DefaultBands(reference)]
                 ELSE self0
        gen   == generate_pixel_mask(self1, default_lower_range, default_higher_range)
    IN  [self |-> gen.self, pixel_mask |-> gen.pixel_mask,
         raised |-> gen.raised, log |-> <<"load">> \o gen.log]

\* ReferencePixels.__init__ and the initialize it ends with.
ReferencePixelsInit(reference, annotated, bands) ==
    LET self0 == [reference_image |-> reference, mask |-> annotated,
                  bands_to_use |-> bands, values |-> NoArray]
        self1 == IF self0.bands_to_use = None
                 THEN [self0 EXCEPT !.bands_to_use = DefaultBands(reference)]
                 ELSE self0
        gen   == generate_pixel_mask(self1, default_lower_range, default_higher_range)
        check == show_statistics_of_pixel_mask(gen.self)
    IN  IF gen.raised # "none"
        THEN [self |-> gen.self, pixel_mask |-> gen.pixel_mask,
              raised |-> gen.raised, log |-> <<"load">> \o gen.log]
        ELSE [self |-> gen.self, pixel_mask |-> gen.pixel_mask,
              raised |-> check, log |-> <<"load">> \o gen.log \o <<"check">>]

-----------------------------------------------------------------------------
(* Exact arithmetic: a float is a fraction num/den in lowest terms, den > 0 *)

Abs(x) == IF x < 0 THEN -x ELSE x

RECURSIVE GCD(_, _)
GCD(a, b) == IF b = 0 THEN a ELSE GCD(b, a % b)

FInt(n) == [num |-> n, den |-> 1]

Frac(n, d) ==
    IF n = 0 THEN FInt(0)
    ELSE LET g == GCD(Abs(n), Abs(d))
             sgn == IF d < 0 THEN -1 ELSE 1
         IN  [num |-> (sgn * n) \div g, den |-> (sgn * d) \div g]

FAdd(a, b) ==
    IF a.num = 0 THEN b
    ELSE IF b.num = 0 THEN a
    ELSE LET g == GCD(a.den, b.den)
         IN  Frac(a.num * (b.den \div g) + b.num * (a.den \div g),
                  (a.den \div g) * b.den)

FNeg(a) == [num |-> -a.num, den |-> a.den]

FSub(a, b) == FAdd(a, FNeg(b))

FMul(a, b) ==
    IF a.num = 0 \/ b.num = 0 THEN FInt(0)
    ELSE LET g1 == GCD(Abs(a.num), b.den)
             g2 == GCD(Abs(b.num), a.den)
         IN  Frac((a.num \div g1) * (b.num \div g2), (a.den \div g2) * (b.den \div g1))

FDiv(a, b) == FMul(a, Frac(b.den, b.num))

\* Sums over x[lo..hi], halving the range.
RECURSIVE SumRange(_, _, _)
SumRange(x, lo, hi) ==
    IF lo > hi THEN 0
    ELSE IF lo = hi THEN x[lo]
    ELSE SumRange(x, lo, (lo + hi) \div 2) + SumRange(x, ((lo + hi) \div 2) + 1, hi)

SumInt(x, n) == SumRange(x, 1, n)

SumProd(x, y, n) == SumRange([k \in 1..n |-> x[k] * y[k]], 1, n)

RECURSIVE FSum(_, _)
FSum(x, n) == IF n = 0 THEN FInt(0) ELSE FAdd(x[n], FSum(x, n - 1))

\* np.average(values, axis=1): an array of one mean per band.
NpAverage(values) ==
    [array |->
        Array([j \in 1..Len(values) |->
                  Frac(SumInt(values[j], Shape1(values)), Shape1(values))])]

\* np.cov(values): rows are variables, columns observations, normalised by
\* N - 1; cov[i][j] = (N * sum(x_i x_j) - sum(x_i) sum(x_j)) / (N (N - 1)).
\* The result is squeezed: a single band gives a 0-dimensional array.
NpCov(values) ==
    LET N == Shape1(values)
        entry(i, j) ==
            Frac(N * SumProd(values[i], values[j], N)
                    - SumInt(values[i], N) * SumInt(values[j], N),
                 N * (N - 1))
    IN  IF Len(values) = 1
        THEN [ndim |-> 0, value |-> entry(1, 1)]
        ELSE [ndim |-> 2,
              value |-> Array([i \in 1..Len(values) |->
                                  Array([j \in 1..Len(values) |-> entry(i, j)])])]

Minor(M, r, c) ==
    Array([i \in 1..(Len(M) - 1) |->
              Array([j \in 1..(Len(M) - 1) |->
                        M[IF i < r THEN i ELSE i + 1][IF j < c THEN j ELSE j + 1]])])

Sign(k) == IF k % 2 = 0 THEN FInt(1) ELSE FInt(-1)

RECURSIVE Det(_)
Det(M) ==
    IF Len(M) = 1 THEN M[1][1]
    ELSE FSum([c \in 1..Len(M) |->
                  FMul(Sign(1 + c), FMul(M[1][c], Det(Minor(M, 1, c))))], Len(M))

\* np.linalg.inv: raises LinAlgError for an array of fewer than two
\* dimensions and for a singular matrix.
LinAlgError == [raises |-> "LinAlgError"]

Adjugate(M) ==
    Array([i \in 1..Len(M) |->
              Array([j \in 1..Len(M) |-> FMul(Sign(i + j), Det(Minor(M, j, i)))])])

Scaled(M, q) ==
    Array([i \in 1..Len(M) |-> Array([j \in 1..Len(M) |-> FDiv(M[i][j], q)])])

LinAlgInv(a) ==
    IF a.ndim < 2 THEN LinAlgError
    ELSE IF Det(a.value).num = 0 THEN LinAlgError
    ELSE [matrix |-> Scaled(Adjugate(a.value), Det(a.value))]

\* np.sqrt of an exact value: the radical is kept, sqrt(0) = 0.
NpSqrt(q) ==
    IF q.num < 0 THEN [nan |-> TRUE]
    ELSE IF q.num = 0 THEN [sqrt |-> FInt(0)]
    ELSE [sqrt |-> q]

Zero == [sqrt |-> FInt(0)]

-----------------------------------------------------------------------------
(* BaseDistance and its two subclasses *)

NoObject ==
    [reference_image |-> NoArray, mask |-> NoArray, bands_to_use |-> None,
     values |-> NoArray]

NoInstance ==
    [kind |-> "none", reference_pixels |-> NoObject, bands_to_use |-> Unset,
     n_components |-> Unset, covariance |-> Unset, average |-> Unset, gmm |-> Unset]

\* The instance the variables hold.
Self ==
    [kind |-> kind, reference_pixels |-> rp, bands_to_use |-> bands_to_use,
     n_components |-> n_components, covariance |-> covariance,
     average |-> average, gmm |-> gmm]

SetSelf(obj) ==
    /\ kind' = obj.kind
    /\ rp' = obj.reference_pixels
    /\ bands_to_use' = obj.bands_to_use
    /\ n_components' = obj.n_components
    /\ covariance' = obj.covariance
    /\ average' = obj.average
    /\ gmm' = obj.gmm

\* Variant: the model keeps the bands_to_use keyword argument itself, not
\* the selection the sampler resolved.
BaseDistanceInitFromKwargs(self, kw, reference_pixels) ==
    [self EXCEPT !.reference_pixels = reference_pixels,
                 !.bands_to_use = kw.bands_to_use]

\* BaseDistance.__init__, given its keyword arguments and the
\* ReferencePixels it built from them.
BaseDistanceInit(self, kw, reference_pixels) ==
    [self EXCEPT !.reference_pixels = reference_pixels,
                 !.bands_to_use = reference_pixels.bands_to_use]

\* Variant: constructors that start covariance and average as empty
\* arrays, the way ReferencePixels.__init__ starts its arrays.
NewInstanceWithDefaults(cls, n, kw, reference_pixels) ==
    LET base == [NoInstance EXCEPT !.kind = cls,
                                   !.reference_pixels = reference_pixels,
                                   !.bands_to_use = reference_pixels.bands_to_use,
                                   !.covariance = [ndim |-> 1, value |-> NoArray],
                                   !.average = [array |-> NoArray]]
    IN  IF cls = "GaussianMixtureModelDistance"
        THEN [base EXCEPT !.n_components = PyInt(n)]
        ELSE base

\* MahalanobisDistance.__init__ and GaussianMixtureModelDistance.__init__.
NewInstance(cls, n, kw, reference_pixels) ==
    LET base == BaseDistanceInit([NoInstance EXCEPT !.kind = cls], kw, reference_pixels)
    IN  IF cls = "GaussianMixtureModelDistance"
        THEN [base EXCEPT !.n_components = PyInt(n)]
        ELSE base

\* Variant: a calculate_statistics that shifts the reference sample in
\* place, each band by its first observation, after taking the statistics.
MahalanobisCalculateStatisticsInPlace(self) ==
    LET values == self.reference_pixels.values
    IN  [self |-> [self EXCEPT
                      !.covariance = NpCov(values),
                      !.average = NpAverage(values),
                      !.reference_pixels.values =
                          [j \in 1..Len(values) |->
                              [k \in 1..Shape1(values) |-> values[j][k] - values[j][1]]]],
         raised |-> "none"]

\* MahalanobisDistance.calculate_statistics.
MahalanobisCalculateStatistics(self) ==
    [self |-> [self EXCEPT !.covariance = NpCov(self.reference_pixels.values),
                           !.average = NpAverage(self.reference_pixels.values)],
     raised |-> "none"]

\* GaussianMixtureModelDistance.calculate_statistics.  sklearn validates
\* n_components when fit is called; the fitted parameters are the outcome
\* of EM from a random start, named here by the start.
GaussianMixtureCalculateStatistics(self, seed) ==
    LET n == self.n_components.int
        estimator == [n_components |-> n, fitted |-> FALSE, seed |-> 0]
    IN  IF n < 1 \/ n > Shape1(self.reference_pixels.values)
        THEN [self |-> [self EXCEPT !.gmm = estimator], raised |-> "ValueError"]
        ELSE [self |-> [self EXCEPT
                          !.gmm = [estimator EXCEPT !.fitted = TRUE, !.seed = seed],
                          !.average = [means_ |-> seed],
                          !.covariance = [covariances_ |-> seed]],
              raised |-> "none"]

\* BaseDistance.initialize: calculate_statistics, then show_statistics
\* (which only prints).
initialize(self, seed) ==
    IF self.kind = "MahalanobisDistance"
    THEN MahalanobisCalculateStatistics(self)
    ELSE GaussianMixtureCalculateStatistics(self, seed)

\* image[bands, :, :] reshaped to (bands, -1) and transposed: one row per
\* pixel, one column per selected band.
ImageBandsInRange(img, bands) ==
    \A j \in 1..Len(bands.tuple) : bands.tuple[j] >= 0 /\ bands.tuple[j] < Len(img)

Pixels(img, bands) ==
    Array([p \in 1..Len(img[1]) |->
              Array([j \in 1..Len(bands.tuple) |-> img[bands.tuple[j] + 1][p]])])

\* Lines 136-141: the distance of every pixel, given the inverse.
MahalanobisDistances(pixels, inv_cov, avg) ==
    [p \in 1..Len(pixels) |->
        LET B == Len(pixels[p])
            diff == Array([j \in 1..B |-> FSub(FInt(pixels[p][j]), avg.array[j])])
            right == Array([j \in 1..B |->
                        FSum(Array([k \in 1..B |-> FMul(diff[k], inv_cov[k][j])]), B)])
            modified_dot_product == Array([j \in 1..B |-> FMul(diff[j], right[j])])
        IN  NpSqrt(FSum(modified_dot_product, B))]

\* Variant: a calculate_distance that keeps the inverse it computed in
\* self.covariance.
MahalanobisCalculateDistanceCachingInverse(self, img) ==
    IF self.bands_to_use = None
    THEN [self |-> self, raised |-> "AssertionError", returned |-> NoReturn]
    ELSE IF ~ImageBandsInRange(img, self.bands_to_use)
    THEN [self |-> self, raised |-> "IndexError", returned |-> NoReturn]
    ELSE IF self.covariance = Unset
    THEN [self |-> self, raised |-> "AttributeError", returned |-> NoReturn]
    ELSE LET inv_cov == LinAlgInv(self.covariance)
         IN  IF inv_cov = LinAlgError
             THEN [self |-> self, raised |-> "LinAlgError", returned |-> NoReturn]
             ELSE IF self.average = Unset
             THEN [self |-> self, raised |-> "AttributeError", returned |-> NoReturn]
             ELSE [self |-> [self EXCEPT
                               !.covariance = [ndim |-> 2, value |-> inv_cov.matrix]],
                   raised |-> "none",
                   returned |-> [distance_image |->
                       <<MahalanobisDistances(Pixels(img, self.bands_to_use),
                                              inv_cov.matrix, self.average)>>]]

\* MahalanobisDistance.calculate_distance.
MahalanobisCalculateDistance(self, img) ==
    IF self.bands_to_use = None
    THEN [self |-> self, raised |-> "AssertionError", returned |-> NoReturn]
    ELSE IF ~ImageBandsInRange(img, self.bands_to_use)
    THEN [self |-> self, raised |-> "IndexError", returned |-> NoReturn]
    ELSE IF self.covariance = Unset
    THEN [self |-> self, raised |-> "AttributeError", returned |-> NoReturn]
    ELSE LET inv_cov == LinAlgInv(self.covariance)
         IN  IF inv_cov = LinAlgError
             THEN [self |-> self, raised |-> "LinAlgError", returned |-> NoReturn]
             ELSE IF self.average = Unset
             THEN [self |-> self, raised |-> "AttributeError", returned |-> NoReturn]
             ELSE [self |-> self, raised |-> "none",
                   returned |-> [distance_image |->
                       <<MahalanobisDistances(Pixels(img, self.bands_to_use),
                                              inv_cov.matrix, self.average)>>]]

\* GaussianMixtureModelDistance.calculate_distance.  score_samples raises
\* sklearn's NotFittedError on an estimator whose fit did not complete;
\* the log-likelihoods are those of the fitted mixture at the pixels.
GaussianMixtureCalculateDistance(self, img) ==
    IF self.bands_to_use = None
    THEN [self |-> self, raised |-> "AssertionError", returned |-> NoReturn]
    ELSE IF ~ImageBandsInRange(img, self.bands_to_use)
    THEN [self |-> self, raised |-> "IndexError", returned |-> NoReturn]
    ELSE IF self.gmm = Unset
    THEN [self |-> self, raised |-> "AttributeError", returned |-> NoReturn]
    ELSE IF ~self.gmm.fitted
    THEN [self |-> self, raised |-> "NotFittedError", returned |-> NoReturn]
    ELSE [self |-> self, raised |-> "none",
          returned |-> [distance_image |->
              <<[score_samples |-> Pixels(img, self.bands_to_use),
                 under |-> self.gmm]>>]]

calculate_distance(self, img) ==
    IF self.kind = "MahalanobisDistance"
    THEN MahalanobisCalculateDistance(self, img)
    ELSE GaussianMixtureCalculateDistance(self, img)

-----------------------------------------------------------------------------
(* The state machine *)

NoMemo == [t \in 1..Len(TargetImages) |-> NoReturn]

Init ==
    /\ kwargs = None
    /\ rp = NoObject
    /\ pixel_mask = NoArray
    /\ kind = "none"
    /\ bands_to_use = Unset
    /\ n_components = Unset
    /\ covariance = Unset
    /\ average = Unset
    /\ gmm = Unset
    /\ raised = "none"
    /\ returned = NoReturn
    /\ image = 0
    /\ log = <<>>
    /\ op = "none"
    /\ memo = NoMemo
    /\ seen = FALSE

\* MahalanobisDistance(**kwargs) / GaussianMixtureModelDistance(n, **kwargs).
\* A constructor that raises leaves no instance behind; rp and pixel_mask
\* then show the sampler as the raise left it.
Construct(cls, n, layout, colours, start, count, bands) ==
    /\ \E made \in {ReferencePixelsInit(ReferenceImage(layout),
                                        MaskImage(colours, start, count), bands)} :
        /\ kwargs' = [bands_to_use |-> bands]
        /\ SetSelf(IF made.raised = "none"
                   THEN NewInstance(cls, n, [bands_to_use |-> bands], made.self)
                   ELSE [NoInstance EXCEPT !.reference_pixels = made.self])
        /\ pixel_mask' = made.pixel_mask
        /\ raised' = made.raised
        /\ log' = made.log
        /\ op' = "construct"
        /\ UNCHANGED <<returned, image, memo, seen>>

\* One instance is constructed, from the start state.
ConstructMahalanobis ==
    /\ kind = "none"
    /\ log = <<>>
    /\ \E layout \in ReferenceLayouts, colours \in MaskColours,
          start \in MarkedStarts, count \in MarkedCounts, bands \in BandSelections :
        Construct("MahalanobisDistance", 0, layout, colours, start, count, bands)

ConstructGaussianMixture ==
    /\ kind = "none"
    /\ log = <<>>
    /\ \E n \in ComponentCounts, layout \in ReferenceLayouts, colours \in MaskColours,
          start \in MarkedStarts, count \in MarkedCounts, bands \in BandSelections :
        Construct("GaussianMixtureModelDistance", n, layout, colours, start, count, bands)

Fits == Len(SelectSeq(log, LAMBDA e : e = "fit"))

\* model.initialize()
Initialize ==
    /\ kind # "none"
    /\ Fits < MaxFits
    /\ \E seed \in Seeds :
       \E r \in {initialize(Self, seed)} :
        /\ SetSelf(r.self)
        /\ raised' = r.raised
        /\ log' = Append(log, "fit")
        /\ op' = "initialize"
        /\ memo' = NoMemo
        /\ seen' = FALSE
        /\ UNCHANGED <<kwargs, pixel_mask, returned, image>>

\* model.calculate_distance(image)
CalculateDistance ==
    /\ kind # "none"
    /\ \E t \in 1..Len(TargetImages) :
       \E r \in {calculate_distance(Self, TargetImages[t])} :
        /\ SetSelf(r.self)
        /\ raised' = r.raised
        /\ returned' = r.returned
        /\ image' = t
        /\ op' = "calculate_distance"
        /\ memo' = IF memo[t] = NoReturn /\ r.raised = "none"
                   THEN [memo EXCEPT ![t] = r.returned] ELSE memo
        /\ seen' = (memo[t] # NoReturn)
        /\ UNCHANGED <<kwargs, pixel_mask, log>>

Next ==
    \/ ConstructMahalanobis
    \/ ConstructGaussianMixture
    \/ Initialize
    \/ CalculateDistance

Spec == Init /\ [][Next]_vars

-----------------------------------------------------------------------------
(* Properties *)

Constructed == kind # "none"

ConstructorCalled == log # <<>>

\* N: the true pixels of the mask generate_pixel_mask derived.
TrueMaskPixels == Cardinality({i \in 1..Len(pixel_mask) : pixel_mask[i] = foreground})

SelectionInRange ==
    \A j \in 1..Len(rp.bands_to_use.tuple) :
        rp.bands_to_use.tuple[j] < Len(rp.reference_image)

C2_ScoreBeforeFitNotFittedError ==
    (Constructed /\ Fits = 0 /\ op = "calculate_distance") =>
        raised = "NotFittedError" /\ returned = NoReturn

\* C2 amended: calculate_distance on an instance whose initialize was
\* never called fails, for both classes, with the AttributeError of the
\* attribute initialize would have set (covariance, gmm), or with an
\* IndexError when the image lacks a selected band; no distance map is
\* returned.
C2_ScoreBeforeFitFails ==
    (Constructed /\ Fits = 0 /\ op = "calculate_distance") =>
        /\ raised = IF ImageBandsInRange(TargetImages[image], bands_to_use)
                    THEN "AttributeError" ELSE "IndexError"
        /\ returned = NoReturn
        /\ memo = NoMemo

C2_Witness ==
    /\ Constructed
    /\ Fits = 0
    /\ op = "calculate_distance"
    /\ raised = "AttributeError"

InBox(v, lower, upper) == \A c \in 1..3 : lower[c] <= v[c] /\ v[c] < upper[c]

\* C3: for a 3-band or 4-band annotation image a pixel is foreground
\* exactly when each of its first three bands lies in [lower, upper) of
\* the default box (245,0,0)..(256,10,10), so (255,0,0) and (245,0,0)
\* are foreground.
C3_InclusiveLowerBox ==
    (ConstructorCalled /\ Len(rp.mask) \in {3, 4}) =>
        \A i \in 1..Len(pixel_mask) :
            (pixel_mask[i] = foreground) <=>
                InBox(<<rp.mask[1][i], rp.mask[2][i], rp.mask[3][i]>>,
                      default_lower_range, default_higher_range)

\* The band rows of the sample, as 0-based band indices.
SampleBands == rp.bands_to_use.tuple

\* C4: for a 1-band annotation image a pixel is foreground exactly when
\* its value is above 127 (127 background, 128 foreground), and the
\* sample has one column per foreground pixel, each the selected bands of
\* such a pixel.
C4_GrayThreshold ==
    (ConstructorCalled /\ Len(rp.mask) = 1) =>
        /\ \A i \in 1..Len(pixel_mask) :
              (pixel_mask[i] = foreground) <=> rp.mask[1][i] >= 128
        /\ "sample" \in {log[k] : k \in 1..Len(log)} =>
              /\ Shape1(rp.values) =
                    Cardinality({i \in 1..NPix : rp.mask[1][i] >= 128})
              /\ \A k \in 1..Shape1(rp.values) :
                    \E i \in 1..NPix :
                        /\ rp.mask[1][i] >= 128
                        /\ \A j \in 1..Len(rp.values) :
                              rp.values[j][k] = rp.reference_image[SampleBands[j] + 1][i]

C4_Witness ==
    /\ Constructed
    /\ Len(rp.mask) = 1
    /\ \E i \in 1..NPix : rp.mask[1][i] = 127 /\ pixel_mask[i] = 0
    /\ \E i \in 1..NPix : rp.mask[1][i] = 128 /\ pixel_mask[i] = foreground
    /\ Shape1(rp.values) = 101

\* C5: with bands_to_use = None the sampler uses the bands 0 .. T-2 in
\* increasing order (T the band count of the reference image), the sample
\* having the T-1 rows of those bands; a supplied selection is kept as is.
C5_BandSelectionDefault ==
    ConstructorCalled =>
        IF kwargs.bands_to_use = None
        THEN /\ rp.bands_to_use =
                    Tuple([j \in 1..(Len(rp.reference_image) - 1) |-> j - 1])
             /\ "sample" \in {log[k] : k \in 1..Len(log)} =>
                   /\ Len(rp.values) = Len(rp.reference_image) - 1
                   /\ \A j \in 1..Len(rp.values) :
                         rp.values[j] = BooleanIndex(rp.reference_image, pixel_mask)[j]
        ELSE rp.bands_to_use = kwargs.bands_to_use

C5_Witness ==
    /\ Constructed
    /\ kwargs.bands_to_use = None
    /\ Len(rp.reference_image) = 4
    /\ rp.bands_to_use = Tuple(<<0, 1, 2>>)
    /\ Len(rp.values) = 3

\* C6: the sample-size check runs after the sample is extracted and
\* before any fit, in every run; no fit of either class runs on a sample
\* of 100 observations or fewer.
C6_CheckBeforeFit ==
    /\ \A i \in 1..Len(log) :
          /\ log[i] = "check" => i > 1 /\ log[i - 1] = "sample"
          /\ log[i] = "fit" => \E c \in 1..(i - 1) : log[c] = "check"
    /\ Fits > 0 => Shape1(rp.values) > 100
    /\ (ConstructorCalled /\ "sample" \in {log[k] : k \in 1..Len(log)}
            /\ Shape1(rp.values) <= 100) => ~Constructed

C6_Witness ==
    /\ Fits > 0
    /\ Shape1(rp.values) = 101
    /\ kind = "GaussianMixtureModelDistance"
    /\ raised = "none"
    /\ op = "initialize"

Fitted ==
    IF kind = "MahalanobisDistance"
    THEN covariance # Unset /\ average # Unset
    ELSE kind = "GaussianMixtureModelDistance" /\ gmm # Unset /\ gmm.fitted

\* C7: a calculate_distance on a fitted instance leaves every attribute
\* of the model and its reference sample as it was, and returns for an
\* image what the first call since the fit returned for that image.
C7_ScoreIsPure ==
    [][(Fitted /\ op' = "calculate_distance") =>
            /\ Self' = Self
            /\ (raised' = "none" /\ memo[image'] # NoReturn) => returned' = memo[image']
            /\ (raised' # "none") => memo[image'] = NoReturn]_vars

C7_Witness ==
    /\ Fitted
    /\ op = "calculate_distance"
    /\ seen
    /\ raised = "none"
    /\ returned = memo[image]
    /\ kind = "MahalanobisDistance"

\* C8 as claimed: an initialize on an instance that is already fitted is
\* rejected with a LifecycleError and leaves the fitted parameters.
C8_RefitRejected ==
    [][(Fitted /\ op' = "initialize") =>
            /\ raised' = "LifecycleError"
            /\ covariance' = covariance /\ average' = average /\ gmm' = gmm]_vars

\* C8 amended: an initialize on an instance that is already fitted is not
\* rejected: it returns normally, having run the fit again on the same
\* reference sample, and the instance stays fitted; the unimodal model's
\* mean and covariance come out equal to those of the first fit.
C8_RefitRecomputes ==
    [][(Fitted /\ op' = "initialize") =>
            /\ raised' = "none"
            /\ Fitted'
            /\ rp' = rp
            /\ log' = Append(log, "fit")
            /\ kind = "MahalanobisDistance" =>
                  covariance' = covariance /\ average' = average]_vars

C8_Witness ==
    /\ Fits = 2
    /\ op = "initialize"
    /\ raised = "none"
    /\ Fitted
    /\ kind = "MahalanobisDistance"

\* The pixels of the last scored image that equal the fitted mean.
PixelsAtMean ==
    {p \in 1..Len(TargetImages[image][1]) :
        \A j \in 1..Len(bands_to_use.tuple) :
            FInt(TargetImages[image][bands_to_use.tuple[j] + 1][p]) = average.array[j]}

\* C9: for every sample with more observations than bands, one band
\* included, calculate_distance of the fitted unimodal model returns 0,
\* and no error, at a pixel equal to the fitted mean.
C9_ZeroAtMean ==
    (/\ kind = "MahalanobisDistance"
     /\ Fitted
     /\ op = "calculate_distance"
     /\ ImageBandsInRange(TargetImages[image], bands_to_use)
     /\ Shape1(rp.values) > Len(rp.values)
     /\ PixelsAtMean # {}) =>
        /\ raised = "none"
        /\ \A p \in PixelsAtMean : returned.distance_image[1][p] = Zero

\* C10: a constructed instance, whether bands_to_use was given or None,
\* holds a tuple as bands_to_use, never None, and the assertion opening
\* calculate_distance never fails.
C10_BandsToUseNeverNone ==
    Constructed =>
        /\ bands_to_use # None
        /\ bands_to_use # Unset
        /\ DOMAIN bands_to_use = {"tuple"}
        /\ Len(bands_to_use.tuple) >= 1
        /\ raised # "AssertionError"

C10_Witness ==
    /\ Constructed
    /\ kwargs.bands_to_use = None
    /\ op = "calculate_distance"
    /\ bands_to_use = Tuple(<<0, 1, 2>>)

====
